---- MODULE Spec2Model ----
(***************************************************************************)
(* Model of examples/c-project/main.c: the entry point `main` that prints  *)
(* a greeting, the argument count, one line per argument and, depending on *)
(* the preprocessor symbols DEBUG and NDEBUG, up to two mode lines, and    *)
(* then returns 0.                                                         *)
(*                                                                         *)
(* The same binary (one build configuration) is executed by two processes  *)
(* on the same invocation, so that the outputs of two runs can be          *)
(* compared. Each process has its own program counter, loop index, output  *)
(* stream and exit status; the invocation and the build configuration are  *)
(* shared and only read.                                                   *)
(*                                                                         *)
(* A "line" is the text written by one printf call whose format ends in a  *)
(* newline. It is kept as the sequence of its pieces: the literal parts of *)
(* the format string, the characters produced by %d and the text copied by *)
(* %s. The trailing newline is implicit.                                   *)
(***************************************************************************)
EXTENDS Integers, Sequences, FiniteSets, TLC

\* Largest number of invocation elements explored.
MaxArgs == 3

\* Texts an invocation element may have.
ArgText == {"prog", "foo", "bar"}

\* The two executions of the program that are compared.
Runs == {"run1", "run2"}

VARIABLES
    argv,    \* the invocation: sequence of argument texts (argv[0] is argv[1] here)
    argc,    \* number of invocation elements, as passed to main
    DEBUG,   \* TRUE iff the build defines the preprocessor symbol DEBUG
    NDEBUG,  \* TRUE iff the build defines the preprocessor symbol NDEBUG
    pc,      \* pc[r]: the statement process r executes next
    i,       \* i[r]: the loop variable of the for statement
    out,     \* out[r]: the lines process r has written to standard output
    reads,   \* reads[r]: the indices at which process r has dereferenced argv
    status   \* status[r]: <<>> while running, <<v>> once main returned v

vars == <<argv, argc, DEBUG, NDEBUG, pc, i, out, reads, status>>

----------------------------------------------------------------------------
\* printf conversions

Digits == <<"0", "1", "2", "3", "4", "5", "6", "7", "8", "9">>

RECURSIVE FormatNat(_)
FormatNat(n) ==
    IF n < 10 THEN <<Digits[n + 1]>>
    ELSE FormatNat(n \div 10) \o <<Digits[(n % 10) + 1]>>

\* %d: decimal digits, most significant first, "-" in front of a negative.
FormatD(n) == IF n < 0 THEN <<"-">> \o FormatNat(-n) ELSE FormatNat(n)

\* line 5 (the greeting's trailing emoji is left out of the literal)
GreetingLine == <<"Hello from C compiled with zmake!">>

\* line 6
CountLine(n) == <<"Arguments: ">> \o FormatD(n)

\* line 9
ArgLine(k, s) == <<"  [">> \o FormatD(k) \o <<"]: ", s>>

\* line 13
DebugLine == <<"Debug mode enabled">>

\* line 17
ReleaseLine == <<"Release mode (optimized)">>

\* What printf("%s") may produce for an element outside 0..argc-1
\* (argv[argc] is a null pointer, anything beyond is out of bounds): the
\* behaviour is undefined, so any of these texts may appear.
UndefinedText == {"(null)", "", "prog"}

\* The texts a read of argv[k] can yield.
ArgvAt(k) ==
    IF k >= 0 /\ k < Len(argv) THEN {argv[k + 1]} ELSE UndefinedText

----------------------------------------------------------------------------
\* Preprocessor conditionals

IfndefNDEBUG == ~NDEBUG
ElseOfDEBUG == NDEBUG /\ ~DEBUG
IfndefDEBUG == ~DEBUG

\* #ifdef DEBUG (line 12)
IfdefDEBUG == DEBUG

\* #ifdef NDEBUG (line 16)
IfdefNDEBUG == NDEBUG

----------------------------------------------------------------------------
\* The sequences of length 0..n over S.
SeqsUpTo(S, n) == UNION {[1..m -> S] : m \in 0..n}

Init ==
    /\ argv \in SeqsUpTo(ArgText, MaxArgs)
    /\ argc = Len(argv)
    /\ DEBUG \in BOOLEAN
    /\ NDEBUG \in BOOLEAN
    /\ pc = [r \in Runs |-> "greeting"]
    /\ i = [r \in Runs |-> 0]
    /\ out = [r \in Runs |-> <<>>]
    /\ reads = [r \in Runs |-> {}]
    /\ status = [r \in Runs |-> <<>>]

Env == <<argv, argc, DEBUG, NDEBUG>>

Emit(r, line) == out' = [out EXCEPT ![r] = Append(@, line)]

Goto(r, l) == pc' = [pc EXCEPT ![r] = l]

\* line 5, written twice
PrintGreetingTwice(r) ==
    /\ pc[r] = "greeting"
    /\ out' = [out EXCEPT ![r] = @ \o <<GreetingLine, GreetingLine>>]
    /\ Goto(r, "count")
    /\ UNCHANGED <<Env, i, reads, status>>

\* line 5: printf("Hello from C compiled with zmake! ...\n");
PrintGreeting(r) ==
    /\ pc[r] = "greeting"
    /\ Emit(r, GreetingLine)
    /\ Goto(r, "count")
    /\ UNCHANGED <<Env, i, reads, status>>

\* line 6 reporting the number of arguments after the program name
PrintCountWithoutName(r) ==
    /\ pc[r] = "count"
    /\ Emit(r, CountLine(argc - 1))
    /\ Goto(r, "for_init")
    /\ UNCHANGED <<Env, i, reads, status>>

\* line 6: printf("Arguments: %d\n", argc);
PrintCount(r) ==
    /\ pc[r] = "count"
    /\ Emit(r, CountLine(argc))
    /\ Goto(r, "for_init")
    /\ UNCHANGED <<Env, i, reads, status>>

\* line 8: int i = 0
ForInit(r) ==
    /\ pc[r] = "for_init"
    /\ i' = [i EXCEPT ![r] = 0]
    /\ Goto(r, "for_test")
    /\ UNCHANGED <<Env, out, reads, status>>

\* line 8 with the condition i <= argc
ForCondInclusive(r) == i[r] <= argc

\* line 8: the loop condition i < argc
ForCond(r) == i[r] < argc

\* line 8: the condition holds, the body is entered
ForTestTrue(r) ==
    /\ pc[r] = "for_test"
    /\ ForCond(r)
    /\ Goto(r, "for_body")
    /\ UNCHANGED <<Env, i, out, reads, status>>

\* line 8: the condition fails, the loop is left
ForTestFalse(r) ==
    /\ pc[r] = "for_test"
    /\ ~ForCond(r)
    /\ Goto(r, "ifdef_debug")
    /\ UNCHANGED <<Env, i, out, reads, status>>

\* line 9: printf("  [%d]: %s\n", i, argv[i]);
PrintArg(r) ==
    /\ pc[r] = "for_body"
    /\ reads' = [reads EXCEPT ![r] = @ \cup {i[r]}]
    /\ \E s \in ArgvAt(i[r]) : Emit(r, ArgLine(i[r], s))
    /\ Goto(r, "for_inc")
    /\ UNCHANGED <<Env, i, status>>

\* line 8 stepping by two
ForIncByTwo(r) ==
    /\ pc[r] = "for_inc"
    /\ i' = [i EXCEPT ![r] = @ + 2]
    /\ Goto(r, "for_test")
    /\ UNCHANGED <<Env, out, reads, status>>

\* line 8: i++
ForInc(r) ==
    /\ pc[r] = "for_inc"
    /\ i' = [i EXCEPT ![r] = @ + 1]
    /\ Goto(r, "for_test")
    /\ UNCHANGED <<Env, out, reads, status>>

\* lines 12-14, DEBUG defined: printf("Debug mode enabled\n");
PrintDebug(r) ==
    /\ pc[r] = "ifdef_debug"
    /\ IfdefDEBUG
    /\ Emit(r, DebugLine)
    /\ Goto(r, "ifdef_ndebug")
    /\ UNCHANGED <<Env, i, reads, status>>

\* lines 12-14, DEBUG not defined: the block is not compiled
SkipDebug(r) ==
    /\ pc[r] = "ifdef_debug"
    /\ ~IfdefDEBUG
    /\ Goto(r, "ifdef_ndebug")
    /\ UNCHANGED <<Env, i, out, reads, status>>

\* lines 16-18, NDEBUG defined: printf("Release mode (optimized)\n");
PrintRelease(r) ==
    /\ pc[r] = "ifdef_ndebug"
    /\ IfdefNDEBUG
    /\ Emit(r, ReleaseLine)
    /\ Goto(r, "return")
    /\ UNCHANGED <<Env, i, reads, status>>

\* lines 16-18, NDEBUG not defined: the block is not compiled
SkipRelease(r) ==
    /\ pc[r] = "ifdef_ndebug"
    /\ ~IfdefNDEBUG
    /\ Goto(r, "return")
    /\ UNCHANGED <<Env, i, out, reads, status>>

\* line 20 returning EXIT_FAILURE
ReturnFailure(r) ==
    /\ pc[r] = "return"
    /\ status' = [status EXCEPT ![r] = <<1>>]
    /\ Goto(r, "done")
    /\ UNCHANGED <<Env, i, out, reads>>

\* line 20: return 0;
Return(r) ==
    /\ pc[r] = "return"
    /\ status' = [status EXCEPT ![r] = <<0>>]
    /\ Goto(r, "done")
    /\ UNCHANGED <<Env, i, out, reads>>

\* lines 4-21: one step of process r
main(r) ==
    \/ PrintGreeting(r)
    \/ PrintCount(r)
    \/ ForInit(r)
    \/ ForTestTrue(r)
    \/ ForTestFalse(r)
    \/ PrintArg(r)
    \/ ForInc(r)
    \/ PrintDebug(r)
    \/ SkipDebug(r)
    \/ PrintRelease(r)
    \/ SkipRelease(r)
    \/ Return(r)

Next == \E r \in Runs : main(r)

Spec == Init /\ [][Next]_vars

\* A process that can take a step eventually takes one: main never blocks.
LiveSpec == Spec /\ \A r \in Runs : WF_vars(main(r))

----------------------------------------------------------------------------
\* Reading the output back

DigitVal(c) == CHOOSE d \in 0..9 : Digits[d + 1] = c

RECURSIVE ParseNat(_)
ParseNat(s) ==
    IF s = <<>> THEN 0
    ELSE ParseNat(SubSeq(s, 1, Len(s) - 1)) * 10 + DigitVal(s[Len(s)])

\* The integer a sequence of decimal characters denotes.
ParseD(s) ==
    IF s # <<>> /\ s[1] = "-" THEN 0 - ParseNat(Tail(s)) ELSE ParseNat(s)

IsArgLine(l) == l[1] = "  ["
IsCountLine(l) == l[1] = "Arguments: "
IsModeLine(l) == l \in {DebugLine, ReleaseLine}

\* The index and the text an argument line shows.
ShownIndex(l) == ParseD(SubSeq(l, 2, Len(l) - 2))
ShownText(l) == l[Len(l)]

\* The count a count line shows.
ShownCount(l) == ParseD(Tail(l))

ArgLinesOf(r) == SelectSeq(out[r], IsArgLine)
CountLinesOf(r) == SelectSeq(out[r], IsCountLine)

\* The positions of `line` in the output of r.
Positions(r, line) == {k \in 1..Len(out[r]) : out[r][k] = line}
Occurrences(r, line) == Cardinality(Positions(r, line))

Done(r) == pc[r] = "done"

N == Len(argv)

----------------------------------------------------------------------------
\* C1: the output contains exactly N argument lines; the k-th of them
\* (k = 0..N-1) shows index k and the text of argument k, so the indices
\* appear in increasing order with none skipped or repeated. While main
\* runs, the argument lines written so far are the first ones of that list.
ArgumentLines ==
    \A r \in Runs :
        LET a == ArgLinesOf(r) IN
        /\ Len(a) <= N
        /\ \A k \in 1..Len(a) :
              /\ ShownIndex(a[k]) = k - 1
              /\ ShownText(a[k]) = argv[k]
              /\ Len(a[k]) = 4
        /\ (Done(r) => Len(a) = N)

ArgumentLinesWitness ==
    \E r \in Runs :
        /\ Done(r)
        /\ argv = <<"prog", "foo", "bar">>
        /\ ArgLinesOf(r) = << <<"  [", "0", "]: ", "prog">>,
                              <<"  [", "1", "]: ", "foo">>,
                              <<"  [", "2", "]: ", "bar">> >>

\* C2: the count line reports exactly N, the number of argument lines that
\* have been written when main returns.
CountLineReportsN ==
    \A r \in Runs :
        /\ \A k \in 1..Len(CountLinesOf(r)) : ShownCount(CountLinesOf(r)[k]) = N
        /\ (pc[r] \notin {"greeting", "count"} => Len(CountLinesOf(r)) = 1)
        /\ (Done(r) => ShownCount(CountLinesOf(r)[1]) = Len(ArgLinesOf(r)))

CountLineWitness ==
    \E r \in Runs :
        /\ Done(r)
        /\ N = 2
        /\ out[r][2] = <<"Arguments: ", "2">>
        /\ Len(ArgLinesOf(r)) = 2

\* C3: the greeting line is written first and once, the count line second and
\* once, then the argument lines; a mode line is written only after the last
\* argument line, the debug line before the release line; the output only
\* grows by one line at its end, and nothing is written after main returned.
OrderOfLines(r) ==
    LET o == out[r] IN
    /\ \A k \in 1..Len(o) :
          /\ (o[k] = GreetingLine) <=> (k = 1)
          /\ IsCountLine(o[k]) <=> (k = 2)
          /\ IsArgLine(o[k]) <=> (k >= 3 /\ k <= 2 + N)
          /\ IsModeLine(o[k]) <=> (k > 2 + N)
    /\ \A k \in Positions(r, ReleaseLine) : k = Len(o)
    /\ \A k \in Positions(r, DebugLine) :
          \/ k = Len(o)
          \/ k = Len(o) - 1 /\ o[Len(o)] = ReleaseLine

AppendOnly(r) ==
    /\ \/ out'[r] = out[r]
       \/ /\ Len(out'[r]) = Len(out[r]) + 1
          /\ SubSeq(out'[r], 1, Len(out[r])) = out[r]
    /\ (Done(r) => out'[r] = out[r] /\ Done(r)')

OutputOrder ==
    /\ [](\A r \in Runs : OrderOfLines(r))
    /\ [][\A r \in Runs : AppendOnly(r)]_vars

OutputOrderWitness ==
    \E r \in Runs :
        /\ Done(r)
        /\ argv = <<"prog", "foo">>
        /\ out[r] = <<GreetingLine,
                      <<"Arguments: ", "2">>,
                      <<"  [", "0", "]: ", "prog">>,
                      <<"  [", "1", "]: ", "foo">>,
                      DebugLine, ReleaseLine>>

\* C4: for every invocation and every build configuration main terminates
\* and returns 0; it never returns another status.
TerminatesWithSuccess ==
    /\ [](\A r \in Runs : status[r] \in {<<>>, <<0>>})
    /\ [](\A r \in Runs : Done(r) <=> status[r] # <<>>)
    /\ \A r \in Runs : <>[](Done(r) /\ status[r] = <<0>>)

TerminatesWitness ==
    /\ \A r \in Runs : Done(r) /\ status[r] = <<0>>
    /\ N = MaxArgs
    /\ DEBUG /\ NDEBUG

\* C5: built with DEBUG defined and NDEBUG undefined, the output contains the
\* debug line exactly once and does not contain the release line.
DebugBuild ==
    \A r \in Runs :
        (DEBUG /\ ~NDEBUG) =>
            /\ Occurrences(r, ReleaseLine) = 0
            /\ Occurrences(r, DebugLine) <= 1
            /\ (Done(r) => Occurrences(r, DebugLine) = 1)

DebugBuildWitness ==
    \E r \in Runs :
        /\ DEBUG /\ ~NDEBUG /\ Done(r) /\ N = 1
        /\ out[r][Len(out[r])] = DebugLine

\* C6: built with NDEBUG defined and DEBUG undefined, the output contains the
\* release line exactly once and does not contain the debug line.
ReleaseBuild ==
    \A r \in Runs :
        (NDEBUG /\ ~DEBUG) =>
            /\ Occurrences(r, DebugLine) = 0
            /\ Occurrences(r, ReleaseLine) <= 1
            /\ (Done(r) => Occurrences(r, ReleaseLine) = 1)

ReleaseBuildWitness ==
    \E r \in Runs :
        /\ NDEBUG /\ ~DEBUG /\ Done(r) /\ N = 1
        /\ out[r][Len(out[r])] = ReleaseLine

\* C7: built with neither symbol defined, the output contains neither mode
\* line: it is the greeting line, the count line and the N argument lines,
\* 2 + N lines in total.
PlainBuild ==
    \A r \in Runs :
        (~DEBUG /\ ~NDEBUG) =>
            /\ Occurrences(r, DebugLine) = 0
            /\ Occurrences(r, ReleaseLine) = 0
            /\ (Done(r) =>
                  /\ Len(out[r]) = 2 + N
                  /\ out[r][1] = GreetingLine
                  /\ IsCountLine(out[r][2])
                  /\ \A k \in 3..(2 + N) : IsArgLine(out[r][k]))

PlainBuildWitness ==
    \E r \in Runs :
        /\ ~DEBUG /\ ~NDEBUG /\ Done(r)
        /\ N = 3 /\ Len(out[r]) = 5

\* C8: each mode line is present if and only if its own symbol is defined,
\* whatever the other symbol; with both defined the output contains both
\* lines, each once, the debug line before the release line.
IndependentModeLines ==
    \A r \in Runs :
        Done(r) =>
            /\ Occurrences(r, DebugLine) = (IF DEBUG THEN 1 ELSE 0)
            /\ Occurrences(r, ReleaseLine) = (IF NDEBUG THEN 1 ELSE 0)
            /\ \A d \in Positions(r, DebugLine) :
                  \A n \in Positions(r, ReleaseLine) : d < n

BothModeLinesWitness ==
    \E r \in Runs :
        /\ DEBUG /\ NDEBUG /\ Done(r)
        /\ out[r][Len(out[r]) - 1] = DebugLine
        /\ out[r][Len(out[r])] = ReleaseLine

\* C9: two runs on the same invocation with the same build configuration
\* write the same lines and return the same status: at every moment the
\* output of one is a prefix of the output of the other, and once both have
\* returned their outputs and statuses are equal.
IsPrefix(s, t) == Len(s) <= Len(t) /\ SubSeq(t, 1, Len(s)) = s

Deterministic ==
    \A r1, r2 \in Runs :
        /\ IsPrefix(out[r1], out[r2]) \/ IsPrefix(out[r2], out[r1])
        /\ (Done(r1) /\ Done(r2) =>
              out[r1] = out[r2] /\ status[r1] = status[r2])

DeterministicWitness ==
    /\ \A r \in Runs : Done(r)
    /\ N = 3
    /\ out["run1"] = out["run2"]
    /\ Len(out["run1"]) = 6

\* C10: the loop index stays within 0..N, argv is read only at an index in
\* 0..N-1, main never changes the invocation, and for an empty invocation
\* nothing is read and no argument line is written.
IndexInBounds(r) ==
    /\ 0 <= i[r] /\ i[r] <= N
    /\ \A k \in reads[r] : 0 <= k /\ k < N
    /\ (pc[r] = "for_body" => i[r] < N)
    /\ (N = 0 => reads[r] = {} /\ ArgLinesOf(r) = <<>>)
    /\ (Done(r) => reads[r] = 0..(N - 1))

BoundsAndReadOnly ==
    /\ [](\A r \in Runs : IndexInBounds(r))
    /\ [][argv' = argv /\ argc' = argc]_vars

BoundsWitness ==
    \E r \in Runs :
        /\ Done(r)
        /\ N = 3
        /\ reads[r] = {0, 1, 2}
        /\ i[r] = 3

====
